---------------------------- MODULE Spec2Model ----------------------------
(***************************************************************************)
(* Verification model of the resilience core of the b402Layer payment SDK: *)
(*   - CacheService      (src/src/services/cache.ts, lines 1-65)           *)
(*   - RetryHandler      (src/src/utils/retry.ts)                          *)
(*   - HttpService       (src/src/services/cache.ts, lines 67-223)         *)
(*   - WebSocketService  (src/unnamed/part_003, lines 117-300)             *)
(* Each component has its own specification (SpecCache, SpecRetry,         *)
(* SpecChannel); the variables of the other components keep their          *)
(* constructed values.                                                     *)
(***************************************************************************)
EXTENDS Integers, Sequences, FiniteSets, Bags, TLC

\* ------------------------------------------------------------------ bounds
\* largest capacity a cache is built with
MaxCapacity == 2
\* largest reading of the clock (Date.now())
MaxNow == 2
\* largest TTL, default or per call
MaxTtl == 1

\* keys: JavaScript strings, the empty string included
Keys == {"", "a", "b"}
Values == {"v1", "v2"}
\* an optional argument or property: <<>> when absent, <<x>> when present
None == <<>>
Some(x) == <<x>>
\* the ttl argument of set: omitted, or a number
TtlArgs == {None} \cup {Some(t) : t \in 0 .. MaxTtl}
\* null, the result of a miss
Null == "null"

\* PaymentManager calls started on one client
MaxJobs == 3

\* largest retry count a RetryHandler is built with
MaxRetries == 2

\* connection objects of one channel that are alive (not closed) at once
MaxLive == 2
\* reconnect timers pending at once
MaxTimers == 2
\* close events counted since the last open event
MaxCloses == 6
\* topics and handlers of the Event Channel
Topics == {"t1", "t2"}
Handlers == {"h1", "h2"}

VARIABLES
  \* CacheService
  cache,      \* the Map, as the sequence of its entries in insertion order
  ttl,        \* this.ttl
  maxSize,    \* this.maxSize
  now,        \* Date.now()
  cacheOp,    \* the last cache call and what it returned
  jobs,       \* the PaymentManager calls made on this cache, in the order they started
  \* RetryHandler.execute, one call
  maxRetries, \* this.maxRetries
  mode,       \* who called execute: "op" (any operation) or "http" (HttpService.request)
  pc,         \* where the call is: idle, calling (fn in flight), sleeping, returned, threw
  attempt,    \* the loop variable
  lastError,  \* the local lastError
  outcome,    \* what execute returned or threw
  calls,      \* what each invocation of fn did, in order
  slept,      \* the delays execute has slept, in order
  warns,      \* the logger.warn diagnostics, in order
  tasks,      \* execute calls running side by side on one RetryHandler: the
              \* locals and the history of each
  options,    \* the ClientOptions a B402Client was constructed from
  \* WebSocketService
  ws,                \* this.ws: "null", or the readyState of the connection it refers to
  orphans,           \* bag of the readyStates of the live connections this.ws no
                     \* longer refers to (their callbacks still call the service)
  subscriptions,     \* this.subscriptions: topic -> set of handlers
  reconnectAttempts, \* this.reconnectAttempts
  reconnectTimer,    \* this.reconnectTimer: the timer the slot refers to
  strayTimers,       \* bag of the delays of the pending timers the slot no longer refers to
  caps,              \* the unsubscribe capabilities subscribe has returned
  used,              \* the capabilities that have been invoked, where the
                     \* specification counts invocations (SpecCapabilities)
  lastSent,          \* per topic, the last control message sent on the connection
                     \* this.ws refers to
  wire,              \* the control messages the last step sent
  closes,            \* close events since the last open event
  shutdown,          \* closeAll has been called, and subscribe not since
  delivered          \* what the last step, if it was handleMessage, did

cacheVars == <<cache, ttl, maxSize, now, cacheOp, jobs>>

retryVars == <<maxRetries, mode, pc, attempt, lastError, outcome, calls, slept, warns,
               tasks, options>>

channelVars == <<ws, orphans, subscriptions, reconnectAttempts, reconnectTimer,
                 strayTimers, caps, used, lastSent, wire, closes, shutdown, delivered>>

vars == <<cache, ttl, maxSize, now, cacheOp, jobs,
          maxRetries, mode, pc, attempt, lastError, outcome, calls, slept, warns, tasks,
          options,
          ws, orphans, subscriptions, reconnectAttempts, reconnectTimer,
          strayTimers, caps, used, lastSent, wire, closes, shutdown, delivered>>

\* ============================================================ CacheService

\* positions of the Map holding key k (at most one)
IndexOf(k) == {i \in 1 .. Len(cache) : cache[i].key = k}

\* Map.has
CacheHasKey(k) == IndexOf(k) # {}

\* Map.get, for a key that is present
EntryOf(k) == cache[CHOOSE i \in IndexOf(k) : TRUE]

\* Map.keys(): the keys in insertion order
CacheKeys == [i \in 1 .. Len(cache) |-> cache[i].key]

\* Map.delete on a sequence of entries
MapDelete(m, k) == SelectSeq(m, LAMBDA e : e.key # k)

\* Map.set on a sequence of entries: an existing key keeps its position,
\* a new key goes last
MapSet(m, e) ==
  IF \E i \in 1 .. Len(m) : m[i].key = e.key
    THEN [i \in 1 .. Len(m) |-> IF m[i].key = e.key THEN e ELSE m[i]]
    ELSE Append(m, e)

\* JavaScript truthiness of a string: the empty string is falsy
Truthy(s) == s # ""

\* ttl || this.ttl : an omitted ttl and the number 0 are both falsy
EffectiveTtl(t) == IF t = None THEN ttl ELSE IF t[1] = 0 THEN ttl ELSE t[1]

\* lines 42-48 of set: the eviction before the insert
Evicted(m) ==
  IF Len(m) >= maxSize /\ Len(m) > 0 /\ Truthy(m[1].key)
    THEN MapDelete(m, m[1].key)
    ELSE m

\* the Map after set(k, v, t)
SetEffect(k, v, t) ==
  MapSet(Evicted(cache), [key |-> k, value |-> v, expiresAt |-> now + EffectiveTtl(t)])

\* set(key, value, ttl?)
Set(k, v, t) ==
  /\ cache' = SetEffect(k, v, t)
  /\ cacheOp' = [op |-> "set", key |-> k, hit |-> CacheHasKey(k), ret |-> Null]
  /\ UNCHANGED <<ttl, maxSize, now, jobs>>
  /\ UNCHANGED retryVars
  /\ UNCHANGED channelVars

\* the value get(k) returns
GetResult(k) ==
  IF ~CacheHasKey(k) THEN Null
  ELSE IF now > EntryOf(k).expiresAt THEN Null
  ELSE EntryOf(k).value

\* get(k) without the delete of line 33
GetEffectKeepsExpired(k) == cache

\* the Map after get(k): an expired entry is deleted
GetEffect(k) ==
  IF CacheHasKey(k) /\ now > EntryOf(k).expiresAt THEN MapDelete(cache, k) ELSE cache

\* get(key)
Get(k) ==
  /\ cache' = GetEffect(k)
  /\ cacheOp' = [op |-> "get", key |-> k, hit |-> CacheHasKey(k), ret |-> GetResult(k)]
  /\ UNCHANGED <<ttl, maxSize, now, jobs>>
  /\ UNCHANGED retryVars
  /\ UNCHANGED channelVars

\* has(key): get(key) !== null
Has(k) ==
  /\ cache' = GetEffect(k)
  /\ cacheOp' = [op |-> "has", key |-> k, hit |-> CacheHasKey(k), ret |-> GetResult(k) # Null]
  /\ UNCHANGED <<ttl, maxSize, now, jobs>>
  /\ UNCHANGED retryVars
  /\ UNCHANGED channelVars

\* delete(key)
Delete(k) ==
  /\ cache' = MapDelete(cache, k)
  /\ cacheOp' = [op |-> "delete", key |-> k, hit |-> CacheHasKey(k), ret |-> Null]
  /\ UNCHANGED <<ttl, maxSize, now, jobs>>
  /\ UNCHANGED retryVars
  /\ UNCHANGED channelVars

\* clear()
Clear ==
  /\ cache' = <<>>
  /\ cacheOp' = [op |-> "clear", key |-> "", hit |-> FALSE, ret |-> Null]
  /\ UNCHANGED <<ttl, maxSize, now, jobs>>
  /\ UNCHANGED retryVars
  /\ UNCHANGED channelVars

\* the clock advances between calls
Tick ==
  /\ now < MaxNow
  /\ now' = now + 1
  /\ UNCHANGED <<cache, ttl, maxSize, cacheOp, jobs>>
  /\ UNCHANGED retryVars
  /\ UNCHANGED channelVars

NoCacheOp == [op |-> "none", key |-> "", hit |-> FALSE, ret |-> Null]

CacheNext ==
  \/ \E k \in Keys, v \in Values, t \in TtlArgs : Set(k, v, t)
  \/ \E k \in Keys : Get(k)
  \/ \E k \in Keys : Has(k)
  \/ \E k \in Keys : Delete(k)
  \/ Clear
  \/ Tick

\* ================================================= errors (src/errors)

\* An Error object: its class, the B402Error fields, the retryAfter of a
\* RateLimitError, a status property (only a foreign error carries one), the
\* originalError, and the invocation of the operation that produced it.
MkError(kind, code, message, retryAfter, status, original) ==
  [kind |-> kind, code |-> code, message |-> message, retryAfter |-> retryAfter,
   status |-> status, original |-> original, by |-> 0]

B402Error(code, message, original) ==
  MkError("B402Error", code, message, None, None, original)

PaymentNotFoundError(message, original) ==
  MkError("PaymentNotFoundError", "PAYMENT_NOT_FOUND", message, None, None, original)

NetworkError(message, original) ==
  MkError("NetworkError", "NETWORK_ERROR", message, None, None, original)

ValidationError(message, original) ==
  MkError("ValidationError", "VALIDATION_ERROR", message, None, None, original)

AuthenticationError(message, original) ==
  MkError("AuthenticationError", "AUTHENTICATION_ERROR", message, None, None, original)

RateLimitError(message, retryAfter, original) ==
  MkError("RateLimitError", "RATE_LIMIT_ERROR", message, Some(retryAfter), None, original)

\* an error that is no B402Error: new Error(message), with or without a status
PlainError(message, status) ==
  MkError("Error", "", message, None, status, None)

\* ============================================================ RetryHandler

RECURSIVE Pow2(_)
\* Math.pow(2, n)
Pow2(n) == IF n <= 0 THEN 1 ELSE 2 * Pow2(n - 1)

\* Math.min
Min(a, b) == IF a <= b THEN a ELSE b

\* shouldRetry with the status test widened to every error status
ShouldRetryAnyStatus(e) ==
  IF e.kind = "NetworkError" THEN TRUE
  ELSE IF e.kind = "RateLimitError" THEN TRUE
  ELSE IF e.status # None THEN e.status[1] >= 400
  ELSE FALSE

\* shouldRetry answering yes to every error
ShouldRetryAlways(e) == TRUE

\* shouldRetry(error)
ShouldRetry(e) ==
  IF e.kind = "NetworkError" THEN TRUE
  ELSE IF e.kind = "RateLimitError" THEN TRUE
  ELSE IF e.status # None THEN e.status[1] >= 500
  ELSE FALSE

\* error instanceof RateLimitError && error.retryAfter : 0 is falsy
HasRetryAfter(e) ==
  /\ e.kind = "RateLimitError"
  /\ e.retryAfter # None
  /\ e.retryAfter[1] # 0

\* calculateDelay with the attempt counted from 1
CalculateDelayFromOne(a, e) ==
  IF HasRetryAfter(e) THEN e.retryAfter[1] * 1000
  ELSE Min(1000 * Pow2(a + 1), 30000)

\* calculateDelay(attempt, error), in ms
CalculateDelay(a, e) ==
  IF HasRetryAfter(e) THEN e.retryAfter[1] * 1000
  ELSE Min(1000 * Pow2(a), 30000)

\* the loop condition with < for <=
LoopConditionStrict(a) == a < maxRetries

\* the loop condition of execute: attempt <= this.maxRetries
LoopCondition(a) == a <= maxRetries

\* the test before the delay answering no on every attempt
IsLastAttemptNever(a) == FALSE

\* the test before the delay: attempt === this.maxRetries
IsLastAttempt(a) == a = maxRetries

NoOutcome == [kind |-> "none", value |-> None]

\* the errors an arbitrary operation handed to execute may fail with
RawErrors ==
  {NetworkError("Network error", None)}
  \cup {RateLimitError("Rate limit", r, None) : r \in {0, 1, 40}}
  \cup {ValidationError("Bad request", None)}
  \cup {PlainError("Error", st) : st \in {None, Some(404), Some(500), Some(503)}}

\* ============================================================= HttpService

\* the retry-after headers a 429 response carries: absent, or a string
\* (a sequence of characters)
Headers == {None, Some(<<"0">>), Some(<<"5">>), Some(<<"4", "0">>), Some(<<"x">>)}

\* the response bodies: absent, or an object with code and message
\* ("" stands for a missing or empty field: both are falsy)
Bodies == {None, Some([code |-> "E1", message |-> "X"]), Some([code |-> "", message |-> ""])}

Statuses == {400, 401, 403, 404, 429, 500, 503}

\* the ways the transport call (axios request) fails: no response at all, or
\* a response with a status outside 2xx
TransportFailures ==
  {[response |-> None]}
  \cup {[response |-> Some([status |-> st, data |-> d, retryAfter |-> None])] :
          st \in Statuses \ {429}, d \in Bodies}
  \cup {[response |-> Some([status |-> 429, data |-> None, retryAfter |-> h])] :
          h \in Headers}

Digits == <<"0", "1", "2", "3", "4", "5", "6", "7", "8", "9">>

IsDigit(c) == \E i \in 1 .. 10 : Digits[i] = c

DigitValue(c) == (CHOOSE i \in 1 .. 10 : Digits[i] = c) - 1

RECURSIVE DigitPrefix(_)
\* the longest prefix of digits of a string
DigitPrefix(str) ==
  IF str = <<>> THEN <<>>
  ELSE IF IsDigit(Head(str)) THEN <<Head(str)>> \o DigitPrefix(Tail(str))
  ELSE <<>>

RECURSIVE NumberOf(_)
\* the number a string of digits denotes
NumberOf(ds) ==
  IF ds = <<>> THEN 0
  ELSE 10 * NumberOf(SubSeq(ds, 1, Len(ds) - 1)) + DigitValue(ds[Len(ds)])

\* parseInt(header): None is NaN (undefined, or no leading digit)
ParseInt(h) ==
  IF h = None THEN None
  ELSE IF DigitPrefix(h[1]) = <<>> THEN None
  ELSE Some(NumberOf(DigitPrefix(h[1])))

\* x || d for a number x: NaN and 0 are falsy
NumberOr(x, d) == IF x = None THEN d ELSE IF x[1] = 0 THEN d ELSE x[1]

\* the default taken whatever the body says
StringOrDefault(str, d) == d

\* s || d for a string s: the empty (or missing) string is falsy
StringOr(str, d) == IF str = "" THEN d ELSE str

\* errorData?.message and errorData?.code
BodyField(d, f) == IF d = None THEN "" ELSE d[1][f]

\* handleError(error)
HandleError(err) ==
  IF err.response = None THEN NetworkError("Network error occurred", Some(err))
  ELSE
    LET status == err.response[1].status
        data == err.response[1].data
    IN  IF status \in {401, 403}
          THEN AuthenticationError("Authentication failed. Check your API key.", Some(err))
        ELSE IF status = 429
          THEN RateLimitError("Rate limit exceeded",
                              NumberOr(ParseInt(err.response[1].retryAfter), 60),
                              Some(err))
        ELSE IF status = 404
          THEN PaymentNotFoundError(StringOr(BodyField(data, "message"),
                                             "Resource not found"), Some(err))
        ELSE IF status = 400
          THEN ValidationError(StringOr(BodyField(data, "message"),
                                        "Invalid request parameters"), Some(err))
        ELSE B402Error(StringOr(BodyField(data, "code"), "UNKNOWN_ERROR"),
                       StringOr(BodyField(data, "message"), "An unexpected error occurred"),
                       Some(err))

\* what the operation handed to execute can throw: HttpService.request wraps
\* the transport call and throws handleError of its failure
Throwable(m) ==
  IF m = "http" THEN {HandleError(f) : f \in TransportFailures} ELSE RawErrors

\* ===================================================== RetryHandler.execute

\* execute(fn) is called: the loop is entered, or skipped
Execute(m) ==
  /\ pc = "idle"
  /\ mode' = m
  /\ attempt' = 0
  /\ IF LoopCondition(0)
       THEN pc' = "calling" /\ outcome' = outcome
       ELSE pc' = "threw" /\ outcome' = [kind |-> "threw", value |-> lastError]
  /\ UNCHANGED <<maxRetries, lastError, calls, slept, warns, tasks, options>>
  /\ UNCHANGED cacheVars
  /\ UNCHANGED channelVars

\* await fn() resolves: return
OpReturns ==
  /\ pc = "calling"
  /\ calls' = Append(calls, [ok |-> TRUE, error |-> None])
  /\ pc' = "returned"
  /\ outcome' = [kind |-> "returned", value |-> Some("data")]
  /\ UNCHANGED <<maxRetries, mode, attempt, lastError, slept, warns, tasks, options>>
  /\ UNCHANGED cacheVars
  /\ UNCHANGED channelVars

\* await fn() rejects with e0: the catch block
OpThrows(e0) ==
  LET e == [e0 EXCEPT !.by = Len(calls) + 1]
      delay == CalculateDelay(attempt, e)
  IN
  /\ pc = "calling"
  /\ calls' = Append(calls, [ok |-> FALSE, error |-> Some(e)])
  /\ lastError' = Some(e)
  /\ IF ~ShouldRetry(e)
       THEN /\ pc' = "threw"
            /\ outcome' = [kind |-> "threw", value |-> Some(e)]
            /\ UNCHANGED <<slept, warns>>
     ELSE IF IsLastAttempt(attempt)
       THEN /\ pc' = "threw"
            /\ outcome' = [kind |-> "threw", value |-> lastError']
            /\ UNCHANGED <<slept, warns>>
     ELSE   /\ pc' = "sleeping"
            /\ warns' = Append(warns, [attempt |-> attempt + 1, maxRetries |-> maxRetries,
                                       delay |-> delay, error |-> e.message])
            /\ slept' = Append(slept, delay)
            /\ UNCHANGED outcome
  /\ UNCHANGED <<maxRetries, mode, attempt, tasks, options>>
  /\ UNCHANGED cacheVars
  /\ UNCHANGED channelVars

\* the loop going round without attempt++
WakeKeepsAttempt ==
  /\ pc = "sleeping"
  /\ attempt' = attempt
  /\ pc' = "calling" /\ outcome' = outcome
  /\ UNCHANGED <<maxRetries, mode, lastError, calls, slept, warns, tasks, options>>
  /\ UNCHANGED cacheVars
  /\ UNCHANGED channelVars

\* the sleep timer fires: attempt++ and the loop condition
Wake ==
  /\ pc = "sleeping"
  /\ attempt' = attempt + 1
  /\ IF LoopCondition(attempt + 1)
       THEN pc' = "calling" /\ outcome' = outcome
       ELSE pc' = "threw" /\ outcome' = [kind |-> "threw", value |-> lastError]
  /\ UNCHANGED <<maxRetries, mode, lastError, calls, slept, warns, tasks, options>>
  /\ UNCHANGED cacheVars
  /\ UNCHANGED channelVars

RetryNext ==
  \/ \E m \in {"op", "http"} : Execute(m)
  \/ OpReturns
  \/ \E e \in Throwable(mode) : OpThrows(e)
  \/ Wake

\* ============================== RetryHandler.execute, calls side by side

\* the callers that run execute on the same RetryHandler at the same time
Callers == {"A", "B"}

\* the errors their operations fail with
TaskErrors ==
  {NetworkError("Network error", None), RateLimitError("Rate limit", 1, None),
   ValidationError("Bad request", None)}

\* an execute call not yet made: its locals (attempt, lastError), where it
\* is, its outcome, and what its invocations and sleeps have been
IdleTask ==
  [pc |-> "idle", attempt |-> 0, lastError |-> None, outcome |-> NoOutcome,
   calls |-> <<>>, slept |-> <<>>]

NoTasks == [c \in Callers |-> IdleTask]

\* attempt and lastError kept as fields of the handler: what call c assigns
\* to them is what every call reads
AssignedToFields(ts, c, r) ==
  [d \in Callers |->
     IF d = c THEN r
     ELSE [ts[d] EXCEPT !.attempt = r.attempt, !.lastError = r.lastError]]

\* let attempt and let lastError are locals of the call: what call c assigns
\* is its own
Assigned(ts, c, r) == [ts EXCEPT ![c] = r]

\* execute(fn) is called by c: the loop is entered, or skipped
TaskExecute(c) ==
  LET me == tasks[c]
  IN
  /\ me.pc = "idle"
  /\ tasks' = Assigned(tasks, c,
                 IF LoopCondition(0)
                   THEN [me EXCEPT !.attempt = 0, !.pc = "calling"]
                   ELSE [me EXCEPT !.attempt = 0, !.pc = "threw",
                                   !.outcome = [kind |-> "threw", value |-> me.lastError]])
  /\ UNCHANGED <<maxRetries, mode, pc, attempt, lastError, outcome, calls, slept, warns,
                 options>>
  /\ UNCHANGED cacheVars
  /\ UNCHANGED channelVars

\* await fn() of call c resolves: return
TaskReturns(c) ==
  LET me == tasks[c]
  IN
  /\ me.pc = "calling"
  /\ tasks' = Assigned(tasks, c,
                 [me EXCEPT !.calls = Append(me.calls, [ok |-> TRUE, error |-> None]),
                            !.pc = "returned",
                            !.outcome = [kind |-> "returned", value |-> Some("data")]])
  /\ UNCHANGED <<maxRetries, mode, pc, attempt, lastError, outcome, calls, slept, warns,
                 options>>
  /\ UNCHANGED cacheVars
  /\ UNCHANGED channelVars

\* await fn() of call c rejects with e: the catch block
TaskThrows(c, e) ==
  LET me == tasks[c]
      failed == [me EXCEPT !.calls = Append(me.calls, [ok |-> FALSE, error |-> Some(e)]),
                           !.lastError = Some(e)]
  IN
  /\ me.pc = "calling"
  /\ tasks' = Assigned(tasks, c,
                 IF ~ShouldRetry(e)
                   THEN [failed EXCEPT !.pc = "threw",
                                       !.outcome = [kind |-> "threw", value |-> Some(e)]]
                 ELSE IF IsLastAttempt(me.attempt)
                   THEN [failed EXCEPT !.pc = "threw",
                                       !.outcome = [kind |-> "threw", value |-> Some(e)]]
                 ELSE [failed EXCEPT !.pc = "sleeping",
                                     !.slept = Append(me.slept, CalculateDelay(me.attempt, e))])
  /\ UNCHANGED <<maxRetries, mode, pc, attempt, lastError, outcome, calls, slept, warns,
                 options>>
  /\ UNCHANGED cacheVars
  /\ UNCHANGED channelVars

\* the sleep timer of call c fires: attempt++ and the loop condition
TaskWake(c) ==
  LET me == tasks[c]
  IN
  /\ me.pc = "sleeping"
  /\ tasks' = Assigned(tasks, c,
                 IF LoopCondition(me.attempt + 1)
                   THEN [me EXCEPT !.attempt = me.attempt + 1, !.pc = "calling"]
                   ELSE [me EXCEPT !.attempt = me.attempt + 1, !.pc = "threw",
                                   !.outcome = [kind |-> "threw", value |-> me.lastError]])
  /\ UNCHANGED <<maxRetries, mode, pc, attempt, lastError, outcome, calls, slept, warns,
                 options>>
  /\ UNCHANGED cacheVars
  /\ UNCHANGED channelVars

ConcurrentNext ==
  \/ \E c \in Callers : TaskExecute(c)
  \/ \E c \in Callers : TaskReturns(c)
  \/ \E c \in Callers, e \in TaskErrors : TaskThrows(c, e)
  \/ \E c \in Callers : TaskWake(c)

\* ======================================================== WebSocketService

\* this.maxReconnectAttempts
maxReconnectAttempts == 5

\* WebSocket.readyState of a connection object that still delivers events
LiveStates == {"CONNECTING", "OPEN", "CLOSING"}

\* a control message {type, channel}
Message(type, channel) == [type |-> type, channel |-> channel]

\* this.ws?.readyState === WebSocket.OPEN
IsOpen(w) == w = "OPEN"

\* subscriptions.has(channel)
HasTopic(subs, t) == t \in DOMAIN subs

\* subscriptions with handler h added under topic t (lines 144-148)
AddHandler(subs, t, h) ==
  [x \in DOMAIN subs \cup {t} |->
     IF x = t THEN (IF HasTopic(subs, t) THEN subs[t] ELSE {}) \cup {h} ELSE subs[x]]

\* unsubscribe leaving the handler in its Set
RemoveHandlerKeeps(subs, t, h) == subs

\* subscriptions after unsubscribe(t, h) (lines 169-175)
RemoveHandler(subs, t, h) ==
  IF ~HasTopic(subs, t) THEN subs
  ELSE IF subs[t] \ {h} = {}
    THEN [x \in DOMAIN subs \ {t} |-> subs[x]]
    ELSE [subs EXCEPT ![t] = subs[t] \ {h}]

\* ensureConnection(): does it call connect()?
MustConnect(w) == ~IsOpen(w)

\* the connection objects that are not closed
LiveCount == (IF ws \in LiveStates THEN 1 ELSE 0) + BagCardinality(orphans)

\* connect() overwrites this.ws: the object it referred to, unless closed,
\* lives on with its callbacks attached
Orphaned(w, orph) == IF w \in LiveStates THEN orph (+) SetToBag({w}) ELSE orph

\* send without the readyState test
SendsWhateverState(w, msgs) == msgs

\* what send(data) puts on the wire
Sends(w, msgs) == IF IsOpen(w) THEN msgs ELSE {}

\* the last control message sent per topic, after sending msgs
Logged(log, msgs) ==
  [t \in Topics |-> IF \E m \in msgs : m.channel = t
                      THEN (CHOOSE m \in msgs : m.channel = t).type
                      ELSE log[t]]

NothingSent == [t \in Topics |-> "none"]

\* the data of an inbound message
Payloads == {"p1", "p2"}

\* the inbound frames: text that JSON.parse rejects, or {channel, data}
Frames ==
  {[ok |-> FALSE, channel |-> "", data |-> ""]}
  \cup {[ok |-> TRUE, channel |-> t, data |-> p] : t \in Topics, p \in Payloads}

\* subscriptions.get(channel): the handlers of a topic, none when undefined
HandlersOf(subs, t) == IF HasTopic(subs, t) THEN subs[t] ELSE {}

\* the last step was not handleMessage
NoDelivery ==
  [kind |-> "none", channel |-> "", data |-> "", invoked |-> EmptyBag,
   failed |-> {}, errors |-> 0, thrown |-> FALSE]

\* the reconnect test with <= for <
MayReconnectInclusive(n) == n <= maxReconnectAttempts

\* handleClose: is a reconnect scheduled?
MayReconnect(n) == n < maxReconnectAttempts

\* the delay computed from the counter after the increment
ReconnectDelayAfterIncrement(n) == Min(1000 * Pow2(n + 1), 30000)

\* handleClose: the delay of the reconnect, from the counter before the increment
ReconnectDelay(n) == Min(1000 * Pow2(n), 30000)

\* the timer slot: null, or a timer that is pending, or one that has fired
\* or been cleared
NullTimer == [state |-> "null", delay |-> 0]
PendingTimer(d) == [state |-> "pending", delay |-> d]
SpentTimer(tm) == IF tm.state = "pending" THEN [tm EXCEPT !.state = "spent"] ELSE tm

\* the pending timers the slot does not refer to, after the slot is overwritten
Strayed(tm, stray) == IF tm.state = "pending" THEN stray (+) SetToBag({tm.delay}) ELSE stray

PendingCount == (IF reconnectTimer.state = "pending" THEN 1 ELSE 0) + BagCardinality(strayTimers)

\* subscribe(channel, handler)
Subscribe(t, h) ==
  LET connect == MustConnect(ws)
      w == IF connect THEN "CONNECTING" ELSE ws
      msgs == Sends(w, {Message("subscribe", t)})
  IN
  /\ connect => LiveCount < MaxLive
  /\ subscriptions' = AddHandler(subscriptions, t, h)
  /\ ws' = w
  /\ orphans' = IF connect THEN Orphaned(ws, orphans) ELSE orphans
  /\ lastSent' = Logged(IF connect THEN NothingSent ELSE lastSent, msgs)
  /\ wire' = msgs
  /\ delivered' = NoDelivery
  /\ caps' = caps \cup {<<t, h>>}
  /\ shutdown' = FALSE
  /\ UNCHANGED <<reconnectAttempts, reconnectTimer, strayTimers, used, closes>>
  /\ UNCHANGED cacheVars
  /\ UNCHANGED retryVars

\* unsubscribe(t, h), the body of every capability subscribe(t, h) returns
DoUnsubscribe(t, h) ==
  LET last == HasTopic(subscriptions, t) /\ subscriptions[t] \ {h} = {}
      msgs == IF last THEN Sends(ws, {Message("unsubscribe", t)}) ELSE {}
  IN
  /\ <<t, h>> \in caps
  /\ subscriptions' = RemoveHandler(subscriptions, t, h)
  /\ lastSent' = Logged(lastSent, msgs)
  /\ wire' = msgs
  /\ delivered' = NoDelivery
  /\ UNCHANGED <<ws, orphans, reconnectAttempts, reconnectTimer, strayTimers, caps, closes,
                 shutdown>>
  /\ UNCHANGED cacheVars
  /\ UNCHANGED retryVars

\* the capability returned by subscribe(t, h) is invoked: unsubscribe(t, h)
Unsubscribe(t, h) ==
  /\ DoUnsubscribe(t, h)
  /\ UNCHANGED used

\* the same, with the invocation counted: the capabilities of (t, h) all run
\* unsubscribe(t, h), so once one of them has been invoked a later
\* invocation may be a second one of the same capability
UnsubscribeCounted(t, h) ==
  /\ DoUnsubscribe(t, h)
  /\ used' = used \cup {<<t, h>>}

\* handleOpen() without the resubscription loop
HandleOpenNoResubscribe(w) ==
  /\ reconnectAttempts' = 0
  /\ lastSent' = lastSent
  /\ wire' = {}
  /\ delivered' = NoDelivery
  /\ closes' = 0
  /\ UNCHANGED <<subscriptions, reconnectTimer, strayTimers, caps, used, shutdown>>
  /\ UNCHANGED cacheVars
  /\ UNCHANGED retryVars

\* handleOpen(), with this.ws as it is once the connection has opened
HandleOpen(w) ==
  LET msgs == Sends(w, {Message("subscribe", t) : t \in DOMAIN subscriptions})
  IN
  /\ reconnectAttempts' = 0
  /\ lastSent' = Logged(lastSent, msgs)
  /\ wire' = msgs
  /\ delivered' = NoDelivery
  /\ closes' = 0
  /\ UNCHANGED <<subscriptions, reconnectTimer, strayTimers, caps, used, shutdown>>
  /\ UNCHANGED cacheVars
  /\ UNCHANGED retryVars

\* the connection this.ws refers to opens: onopen
WsOpens ==
  /\ ws = "CONNECTING"
  /\ ws' = "OPEN"
  /\ UNCHANGED orphans
  /\ HandleOpen("OPEN")

\* a connection the channel no longer refers to opens: onopen
OrphanOpens ==
  /\ BagIn("CONNECTING", orphans)
  /\ orphans' = (orphans (-) SetToBag({"CONNECTING"})) (+) SetToBag({"OPEN"})
  /\ UNCHANGED ws
  /\ HandleOpen(ws)

\* a close handler that forgets the subscriptions
HandleCloseForgets ==
  /\ closes < MaxCloses
  /\ IF MayReconnect(reconnectAttempts)
       THEN /\ PendingCount < MaxTimers
            /\ reconnectAttempts' = reconnectAttempts + 1
            /\ reconnectTimer' = PendingTimer(ReconnectDelay(reconnectAttempts))
            /\ strayTimers' = Strayed(reconnectTimer, strayTimers)
       ELSE UNCHANGED <<reconnectAttempts, reconnectTimer, strayTimers>>
  /\ closes' = closes + 1
  /\ wire' = {}
  /\ delivered' = NoDelivery
  /\ subscriptions' = <<>>
  /\ UNCHANGED <<caps, used, lastSent, shutdown>>
  /\ UNCHANGED cacheVars
  /\ UNCHANGED retryVars

\* handleClose()
HandleClose ==
  /\ closes < MaxCloses
  /\ IF MayReconnect(reconnectAttempts)
       THEN /\ PendingCount < MaxTimers
            /\ reconnectAttempts' = reconnectAttempts + 1
            /\ reconnectTimer' = PendingTimer(ReconnectDelay(reconnectAttempts))
            /\ strayTimers' = Strayed(reconnectTimer, strayTimers)
       ELSE UNCHANGED <<reconnectAttempts, reconnectTimer, strayTimers>>
  /\ closes' = closes + 1
  /\ wire' = {}
  /\ delivered' = NoDelivery
  /\ UNCHANGED <<subscriptions, caps, used, lastSent, shutdown>>
  /\ UNCHANGED cacheVars
  /\ UNCHANGED retryVars

\* the connection this.ws refers to closes (dropped by the transport): onclose
WsCloses ==
  /\ ws \in LiveStates
  /\ ws' = "CLOSED"
  /\ UNCHANGED orphans
  /\ HandleClose

\* a connection the channel no longer refers to closes (dropped, or the close
\* event that follows ws.close()): onclose
OrphanCloses(st) ==
  /\ BagIn(st, orphans)
  /\ orphans' = orphans (-) SetToBag({st})
  /\ UNCHANGED ws
  /\ HandleClose

\* connect(), called by a reconnect timer
Reconnect ==
  /\ LiveCount < MaxLive
  /\ ws' = "CONNECTING"
  /\ orphans' = Orphaned(ws, orphans)
  /\ lastSent' = NothingSent
  /\ wire' = {}
  /\ delivered' = NoDelivery
  /\ UNCHANGED <<subscriptions, reconnectAttempts, caps, used, closes, shutdown>>
  /\ UNCHANGED cacheVars
  /\ UNCHANGED retryVars

\* the timer in the slot fires
SlotTimerFires ==
  /\ reconnectTimer.state = "pending"
  /\ reconnectTimer' = SpentTimer(reconnectTimer)
  /\ UNCHANGED strayTimers
  /\ Reconnect

\* a pending timer the slot no longer refers to fires
StrayTimerFires(d) ==
  /\ BagIn(d, strayTimers)
  /\ strayTimers' = strayTimers (-) SetToBag({d})
  /\ UNCHANGED reconnectTimer
  /\ Reconnect

\* WebSocket.close(): a connection that is not yet closed starts closing
Closing(st) == IF st \in {"CONNECTING", "OPEN"} THEN "CLOSING" ELSE st

\* closeAll() starting the reconnect counter afresh
CloseAllResetsCounter ==
  /\ reconnectTimer' = SpentTimer(reconnectTimer)
  /\ orphans' = Orphaned(Closing(ws), orphans)
  /\ ws' = "null"
  /\ lastSent' = NothingSent
  /\ wire' = {}
  /\ delivered' = NoDelivery
  /\ subscriptions' = <<>>
  /\ shutdown' = TRUE
  /\ reconnectAttempts' = 0
  /\ UNCHANGED <<strayTimers, caps, used, closes>>
  /\ UNCHANGED cacheVars
  /\ UNCHANGED retryVars

\* closeAll(): the timer in the slot is cleared (the slot is not reset), the
\* connection is told to close and forgotten with its callbacks attached, so
\* its close event still runs handleClose (OrphanCloses)
CloseAll ==
  /\ reconnectTimer' = SpentTimer(reconnectTimer)
  /\ orphans' = Orphaned(Closing(ws), orphans)
  /\ ws' = "null"
  /\ lastSent' = NothingSent
  /\ wire' = {}
  /\ delivered' = NoDelivery
  /\ subscriptions' = <<>>
  /\ shutdown' = TRUE
  /\ UNCHANGED <<reconnectAttempts, strayTimers, caps, used, closes>>
  /\ UNCHANGED cacheVars
  /\ UNCHANGED retryVars

\* handlers.forEach without the try/catch around handler(data): the first
\* handler that throws ends the loop, and the outer catch logs the failure
DispatchedUnguarded(frame, bad) ==
  LET hs == HandlersOf(subscriptions, frame.channel)
      run == IF hs \cap bad = {} THEN hs ELSE hs \cap bad
  IN  [kind |-> "message", channel |-> frame.channel, data |-> frame.data,
       invoked |-> SetToBag({<<h, frame.data>> : h \in run}),
       failed |-> hs \cap bad,
       errors |-> IF hs \cap bad = {} THEN 0 ELSE 1,
       thrown |-> FALSE]

\* the dispatch handing the message to the handlers of every topic
DispatchedToAll(frame, bad) ==
  LET hs == UNION {subscriptions[t] : t \in DOMAIN subscriptions}
  IN  [kind |-> "message", channel |-> frame.channel, data |-> frame.data,
       invoked |-> SetToBag({<<h, frame.data>> : h \in hs}),
       failed |-> hs \cap bad,
       errors |-> Cardinality(hs \cap bad),
       thrown |-> FALSE]

\* lines 232-243 of handleMessage: every handler of the topic is called once
\* with the data; a handler that throws (bad) is caught and logged
Dispatched(frame, bad) ==
  LET hs == HandlersOf(subscriptions, frame.channel)
  IN  [kind |-> "message", channel |-> frame.channel, data |-> frame.data,
       invoked |-> SetToBag({<<h, frame.data>> : h \in hs}),
       failed |-> hs \cap bad,
       errors |-> Cardinality(hs \cap bad),
       thrown |-> FALSE]

\* a frame that does not parse handed to every registered handler
DroppedToHandlers ==
  [kind |-> "dropped", channel |-> "", data |-> "",
   invoked |-> SetToBag({<<x[2], "">> : x \in {<<t, h>> \in Topics \X Handlers :
                                                HasTopic(subscriptions, t) /\ h \in subscriptions[t]}}),
   failed |-> {}, errors |-> 1, thrown |-> FALSE]

\* the outer catch of handleMessage: the frame is logged and dropped
Dropped ==
  [kind |-> "dropped", channel |-> "", data |-> "", invoked |-> EmptyBag,
   failed |-> {}, errors |-> 1, thrown |-> FALSE]

\* handleMessage(event): onmessage of a connection that is open, be it the one
\* this.ws refers to or a replaced one; bad are the handlers that throw
HandleMessage(frame, bad) ==
  /\ IsOpen(ws) \/ BagIn("OPEN", orphans)
  /\ delivered' = IF frame.ok THEN Dispatched(frame, bad) ELSE Dropped
  /\ wire' = {}
  /\ UNCHANGED <<ws, orphans, subscriptions, reconnectAttempts, reconnectTimer,
                 strayTimers, caps, used, lastSent, closes, shutdown>>
  /\ UNCHANGED cacheVars
  /\ UNCHANGED retryVars

\* the diagnostic of handleError: one logger.error, nothing delivered
ErrorLogged == [NoDelivery EXCEPT !.kind = "error", !.errors = 1]

\* an error handler that schedules a reconnect as handleClose does
HandleWsErrorReconnects ==
  /\ ws \in LiveStates \/ orphans # EmptyBag
  /\ MayReconnect(reconnectAttempts)
  /\ PendingCount < MaxTimers
  /\ reconnectAttempts' = reconnectAttempts + 1
  /\ reconnectTimer' = PendingTimer(ReconnectDelay(reconnectAttempts))
  /\ strayTimers' = Strayed(reconnectTimer, strayTimers)
  /\ delivered' = ErrorLogged
  /\ wire' = {}
  /\ UNCHANGED <<ws, orphans, subscriptions, caps, used, lastSent, closes, shutdown>>
  /\ UNCHANGED cacheVars
  /\ UNCHANGED retryVars

\* handleError(error): onerror of a connection that is not closed, be it the
\* one this.ws refers to or a replaced one
HandleWsError ==
  /\ ws \in LiveStates \/ orphans # EmptyBag
  /\ delivered' = ErrorLogged
  /\ wire' = {}
  /\ UNCHANGED <<ws, orphans, subscriptions, reconnectAttempts, reconnectTimer,
                 strayTimers, caps, used, lastSent, closes, shutdown>>
  /\ UNCHANGED cacheVars
  /\ UNCHANGED retryVars

ChannelNext ==
  \/ \E t \in Topics, h \in Handlers : Subscribe(t, h)
  \/ \E t \in Topics, h \in Handlers : Unsubscribe(t, h)
  \/ WsOpens
  \/ OrphanOpens
  \/ WsCloses
  \/ \E st \in LiveStates : OrphanCloses(st)
  \/ SlotTimerFires
  \/ \E d \in BagToSet(strayTimers) : StrayTimerFires(d)
  \/ CloseAll

\* ========================================================== PaymentManager

\* payment identifiers and the status objects the API answers with
PaymentIds == {"p1", "p2"}
PaymentStatuses == {"s1", "s2"}

\* the TTL getStatus caches a status with, in ms
StatusTtl == 5000

\* the cache key with the id left out
StatusKeyShared(id) == "payment:status:"

\* `payment:status:${paymentId}`
StatusKey(id) == "payment:status:" \o id

\* the classified errors a pipeline call of the manager fails with
PipelineErrors ==
  {NetworkError("Network error occurred", None),
   PaymentNotFoundError("Resource not found", None)}

\* a call of the manager: what was called, where it is (fetching: its
\* pipeline request is in flight), what it returned or threw, and how many
\* pipeline requests it has issued
Job(op, id, at, result, error, fetches) ==
  [op |-> op, id |-> id, pc |-> at, result |-> result, error |-> error,
   fetches |-> fetches]

\* getStatus(paymentId) up to its await: the cache lookup, then either the
\* cached status is returned or http.get is issued
GetStatus(id) ==
  LET key == StatusKey(id)
      cached == GetResult(key)
  IN
  /\ Len(jobs) < MaxJobs
  /\ cache' = GetEffect(key)
  /\ cacheOp' = [op |-> "get", key |-> key, hit |-> CacheHasKey(key), ret |-> cached]
  /\ jobs' = Append(jobs, IF cached # Null
                            THEN Job("getStatus", id, "returned", cached, None, 0)
                            ELSE Job("getStatus", id, "fetching", Null, None, 1))
  /\ UNCHANGED <<ttl, maxSize, now>>
  /\ UNCHANGED retryVars
  /\ UNCHANGED channelVars

\* http.get of getStatus call j resolves with st: the status is cached for
\* 5000 ms and returned
StatusFetched(j, st) ==
  LET key == StatusKey(jobs[j].id)
  IN
  /\ jobs[j].op = "getStatus" /\ jobs[j].pc = "fetching"
  /\ cache' = SetEffect(key, st, Some(StatusTtl))
  /\ cacheOp' = [op |-> "set", key |-> key, hit |-> CacheHasKey(key), ret |-> Null]
  /\ jobs' = [jobs EXCEPT ![j] = Job("getStatus", @.id, "returned", st, None, @.fetches)]
  /\ UNCHANGED <<ttl, maxSize, now>>
  /\ UNCHANGED retryVars
  /\ UNCHANGED channelVars

\* the pipeline request of call j rejects with e: the call throws e
FetchFails(j, e) ==
  /\ jobs[j].pc = "fetching"
  /\ jobs' = [jobs EXCEPT ![j] = Job(@.op, @.id, "threw", Null, Some(e), @.fetches)]
  /\ UNCHANGED <<cache, ttl, maxSize, now, cacheOp>>
  /\ UNCHANGED retryVars
  /\ UNCHANGED channelVars

\* cancel(paymentId) up to its await: http.post is issued
Cancel(id) ==
  /\ Len(jobs) < MaxJobs
  /\ jobs' = Append(jobs, Job("cancel", id, "fetching", Null, None, 1))
  /\ UNCHANGED <<cache, ttl, maxSize, now, cacheOp>>
  /\ UNCHANGED retryVars
  /\ UNCHANGED channelVars

\* http.post of cancel call j resolves: the cached status is invalidated
CancelPosted(j) ==
  LET key == StatusKey(jobs[j].id)
  IN
  /\ jobs[j].op = "cancel" /\ jobs[j].pc = "fetching"
  /\ cache' = MapDelete(cache, key)
  /\ cacheOp' = [op |-> "delete", key |-> key, hit |-> CacheHasKey(key), ret |-> Null]
  /\ jobs' = [jobs EXCEPT ![j] = Job("cancel", @.id, "returned", Null, None, @.fetches)]
  /\ UNCHANGED <<ttl, maxSize, now>>
  /\ UNCHANGED retryVars
  /\ UNCHANGED channelVars

\* the clock advances between the steps of the manager, by one status TTL
PaymentTick ==
  /\ now < MaxNow * StatusTtl
  /\ now' = now + StatusTtl
  /\ UNCHANGED <<cache, ttl, maxSize, cacheOp, jobs>>
  /\ UNCHANGED retryVars
  /\ UNCHANGED channelVars

PaymentNext ==
  \/ \E id \in PaymentIds : GetStatus(id)
  \/ \E j \in 1 .. Len(jobs), st \in PaymentStatuses : StatusFetched(j, st)
  \/ \E j \in 1 .. Len(jobs), e \in PipelineErrors : FetchFails(j, e)
  \/ \E id \in PaymentIds : Cancel(id)
  \/ \E j \in 1 .. Len(jobs) : CancelPosted(j)
  \/ PaymentTick

\* ============================================================== B402Client

\* the defaults of mergeWithDefaults
DefaultRetries == 3
DefaultCacheTtl == 5000
DefaultCacheMaxSize == 100

\* ClientOptions: retries, cacheTTL and cacheMaxSize, each a number or omitted
ClientOptions ==
  [retries : {None} \cup {Some(n) : n \in -1 .. MaxRetries},
   cacheTTL : {None} \cup {Some(n) : n \in 0 .. MaxTtl},
   cacheMaxSize : {None} \cup {Some(n) : n \in 0 .. MaxCapacity}]

\* no client: the component was constructed on its own
NoOptions == [retries |-> None, cacheTTL |-> None, cacheMaxSize |-> None]

\* mergeWithDefaults(options): the ClientConfig the services are built from
MergeWithDefaults(o) ==
  [retries |-> NumberOr(o.retries, DefaultRetries),
   cacheOptions |-> [ttl |-> NumberOr(o.cacheTTL, DefaultCacheTtl),
                     maxSize |-> NumberOr(o.cacheMaxSize, DefaultCacheMaxSize)]]

\* ========================================================== specifications
\* Each specification starts every component as constructed and runs one of
\* them; the components share no state.

\* new CacheService({ttl, maxSize}), any ttl and any capacity >= 1
CacheInit ==
  /\ cache = <<>>
  /\ ttl \in 0 .. MaxTtl
  /\ maxSize \in 1 .. MaxCapacity
  /\ now = 0
  /\ cacheOp = NoCacheOp
  /\ jobs = <<>>
  /\ maxRetries = 0
  /\ mode = "op"
  /\ pc = "idle"
  /\ attempt = 0
  /\ lastError = None
  /\ outcome = NoOutcome
  /\ calls = <<>>
  /\ slept = <<>>
  /\ warns = <<>>
  /\ tasks = NoTasks
  /\ options = NoOptions
  /\ ws = "null"
  /\ orphans = EmptyBag
  /\ subscriptions = <<>>
  /\ reconnectAttempts = 0
  /\ reconnectTimer = NullTimer
  /\ strayTimers = EmptyBag
  /\ caps = {}
  /\ used = {}
  /\ lastSent = NothingSent
  /\ wire = {}
  /\ closes = 0
  /\ shutdown = FALSE
  /\ delivered = NoDelivery

\* new RetryHandler(maxRetries, logger), any retry count; no execute call yet
RetryInit ==
  /\ cache = <<>>
  /\ ttl = 0
  /\ maxSize = 1
  /\ now = 0
  /\ cacheOp = NoCacheOp
  /\ jobs = <<>>
  /\ maxRetries \in -1 .. MaxRetries
  /\ mode = "op"
  /\ pc = "idle"
  /\ attempt = 0
  /\ lastError = None
  /\ outcome = NoOutcome
  /\ calls = <<>>
  /\ slept = <<>>
  /\ warns = <<>>
  /\ tasks = NoTasks
  /\ options = NoOptions
  /\ ws = "null"
  /\ orphans = EmptyBag
  /\ subscriptions = <<>>
  /\ reconnectAttempts = 0
  /\ reconnectTimer = NullTimer
  /\ strayTimers = EmptyBag
  /\ caps = {}
  /\ used = {}
  /\ lastSent = NothingSent
  /\ wire = {}
  /\ closes = 0
  /\ shutdown = FALSE
  /\ delivered = NoDelivery

\* new WebSocketService(config, logger)
ChannelInit ==
  /\ cache = <<>>
  /\ ttl = 0
  /\ maxSize = 1
  /\ now = 0
  /\ cacheOp = NoCacheOp
  /\ jobs = <<>>
  /\ maxRetries = 0
  /\ mode = "op"
  /\ pc = "idle"
  /\ attempt = 0
  /\ lastError = None
  /\ outcome = NoOutcome
  /\ calls = <<>>
  /\ slept = <<>>
  /\ warns = <<>>
  /\ tasks = NoTasks
  /\ options = NoOptions
  /\ ws = "null"
  /\ orphans = EmptyBag
  /\ subscriptions = <<>>
  /\ reconnectAttempts = 0
  /\ reconnectTimer = NullTimer
  /\ strayTimers = EmptyBag
  /\ caps = {}
  /\ used = {}
  /\ lastSent = NothingSent
  /\ wire = {}
  /\ closes = 0
  /\ shutdown = FALSE
  /\ delivered = NoDelivery

\* new B402Client(options): the constructor hands config.retries to the
\* RetryHandler of its HttpService and config.cacheOptions to its CacheService
ClientInit ==
  /\ options \in ClientOptions
  /\ cache = <<>>
  /\ ttl = MergeWithDefaults(options).cacheOptions.ttl
  /\ maxSize = MergeWithDefaults(options).cacheOptions.maxSize
  /\ now = 0
  /\ cacheOp = NoCacheOp
  /\ jobs = <<>>
  /\ maxRetries = MergeWithDefaults(options).retries
  /\ mode = "op"
  /\ pc = "idle"
  /\ attempt = 0
  /\ lastError = None
  /\ outcome = NoOutcome
  /\ calls = <<>>
  /\ slept = <<>>
  /\ warns = <<>>
  /\ tasks = NoTasks
  /\ ws = "null"
  /\ orphans = EmptyBag
  /\ subscriptions = <<>>
  /\ reconnectAttempts = 0
  /\ reconnectTimer = NullTimer
  /\ strayTimers = EmptyBag
  /\ caps = {}
  /\ used = {}
  /\ lastSent = NothingSent
  /\ wire = {}
  /\ closes = 0
  /\ shutdown = FALSE
  /\ delivered = NoDelivery

SpecCache == CacheInit /\ [][CacheNext]_vars

\* a PaymentManager on a newly built cache
SpecPayments == CacheInit /\ [][PaymentNext]_vars

SpecRetry == RetryInit /\ [][RetryNext]_vars

\* one call of execute whose operation settles whenever it is invoked and
\* whose sleep timers fire
SpecRetryFair ==
  /\ RetryInit
  /\ [][RetryNext]_vars
  /\ WF_vars(OpReturns \/ \E e \in Throwable(mode) : OpThrows(e))
  /\ WF_vars(Wake)

\* several execute calls on one RetryHandler
SpecConcurrent == RetryInit /\ [][ConcurrentNext]_vars

SpecChannel == ChannelInit /\ [][ChannelNext]_vars

\* the channel with inbound messages and transport errors
MessagesNext ==
  \/ ChannelNext
  \/ \E frame \in Frames :
       \E bad \in SUBSET HandlersOf(subscriptions, frame.channel) :
         HandleMessage(frame, bad)
  \/ HandleWsError

SpecMessages == ChannelInit /\ [][MessagesNext]_vars

\* the channel with the invocations of the unsubscribe capabilities counted
CapabilityNext ==
  \/ \E t \in Topics, h \in Handlers : Subscribe(t, h)
  \/ \E t \in Topics, h \in Handlers : UnsubscribeCounted(t, h)
  \/ WsOpens
  \/ OrphanOpens
  \/ WsCloses
  \/ \E st \in LiveStates : OrphanCloses(st)
  \/ SlotTimerFires
  \/ \E d \in BagToSet(strayTimers) : StrayTimerFires(d)
  \/ CloseAll

SpecCapabilities == ChannelInit /\ [][CapabilityNext]_vars

\* a client's request pipeline: HttpService.request runs execute on the
\* RetryHandler the client constructed
ClientNext ==
  \/ Execute("http")
  \/ OpReturns
  \/ \E e \in Throwable("http") : OpThrows(e)
  \/ Wake

SpecClient == ClientInit /\ [][ClientNext]_vars

\* ================================================================== claims

\* the keys a Map holds
KeysOf(m) == {m[i].key : i \in 1 .. Len(m)}

\* the value a Map holds under a key that is present
ValueOf(m, k) == (CHOOSE e \in {m[i] : i \in 1 .. Len(m)} : e.key = k).value

\* connection objects of the channel that are Connecting or Open
ConnectingOrOpen ==
  (IF ws \in {"CONNECTING", "OPEN"} THEN 1 ELSE 0)
  + CopiesIn("CONNECTING", orphans) + CopiesIn("OPEN", orphans)

\* C1: at most one connection object of a channel is Connecting or Open in
\* every reachable state (subscribe reuses a Connecting or Open connection,
\* a reconnect timer creates none beside one).
C1_OneLiveConnection == ConnectingOrOpen <= 1

\* C2: after closeAll, until the next subscribe, no reconnect timer is
\* pending and the channel has no connection: neither the close event of the
\* connection closeAll closed nor an earlier timer reconnects.
C2_NoReconnectAfterCloseAll == shutdown => (PendingCount = 0 /\ ws = "null")

\* C3: a cache built with maxSize >= 1 never holds more than maxSize
\* entries, the empty string being a key like any other.
C3_StoreBounded == Len(cache) <= maxSize

\* C4: a set on a key that is present evicts nothing: every key present
\* before is present after, and the key holds the new value.
C4_UpdateNeverEvicts ==
  [][\A k \in Keys, v \in Values, t \in TtlArgs :
       (CacheHasKey(k) /\ Set(k, v, t)) =>
         (KeysOf(cache) \subseteq KeysOf(cache') /\ ValueOf(cache', k) = v)]_vars

\* the errors the Retry Engine is specified to retry: Network, RateLimit, or
\* a numeric status >= 500
Retryable(e) ==
  \/ e.kind \in {"NetworkError", "RateLimitError"}
  \/ (e.status # None /\ e.status[1] >= 500)

\* every invocation so far has failed with an error that is to be retried
AllFailedRetryable ==
  \A i \in 1 .. Len(calls) : ~calls[i].ok /\ Retryable(calls[i].error[1])

\* C5: an operation that fails with a retryable error on every attempt is
\* invoked exactly maxRetries + 1 times, never more, and execute then throws
\* the very error of the last invocation (for a RateLimit error, with its
\* retryAfter), unwrapped.
C5_ExhaustedThrowsLastError ==
  (maxRetries >= 0 /\ AllFailedRetryable) =>
    /\ Len(calls) <= maxRetries + 1
    /\ pc = "threw" =>
         /\ Len(calls) = maxRetries + 1
         /\ outcome = [kind |-> "threw", value |-> calls[Len(calls)].error]
         /\ calls[Len(calls)].error[1].by = Len(calls)

C5_Witness ==
  /\ pc = "threw"
  /\ maxRetries = 2
  /\ AllFailedRetryable
  /\ Len(calls) = 3
  /\ outcome.value[1].kind = "RateLimitError"
  /\ outcome.value[1].retryAfter = Some(40)

\* the status of the response behind a pipeline error, 0 when there was none
ResponseStatus(e) ==
  IF e.original = None THEN 0
  ELSE IF e.original[1].response = None THEN 0
  ELSE e.original[1].response[1].status

\* C6: a pipeline request whose response has a status >= 500 is retried
\* while the retry budget lasts: execute does not fail on that attempt.
C6_ServerErrorRetried ==
  \A i \in 1 .. Len(calls) :
    (mode = "http" /\ ~calls[i].ok /\ ResponseStatus(calls[i].error[1]) >= 500
       /\ i <= maxRetries)
      => ~(pc = "threw" /\ Len(calls) = i)

\* C7: an invocation that fails with an error that is not retryable is the
\* last one: execute throws that error at once, with no delay and no retry
\* diagnostic after it; if it is the first invocation, it is the only one.
C7_NonRetryableFailsAtOnce ==
  \A i \in 1 .. Len(calls) :
    (~calls[i].ok /\ ~Retryable(calls[i].error[1])) =>
      /\ Len(calls) = i
      /\ pc = "threw"
      /\ outcome = [kind |-> "threw", value |-> calls[i].error]
      /\ Len(slept) = i - 1
      /\ Len(warns) = i - 1

C7_Witness ==
  /\ pc = "threw"
  /\ maxRetries = 2
  /\ Len(calls) = 1
  /\ calls[1].error[1].kind = "ValidationError"
  /\ slept = <<>> /\ warns = <<>>

\* C8: whenever a connection of the channel opens, the reconnect counter is
\* reset to 0 and a subscribe message is sent on the channel's current
\* connection for every registered topic.
C8_OpenResubscribes ==
  [][(WsOpens \/ OrphanOpens) =>
       /\ reconnectAttempts' = 0
       /\ wire' = {Message("subscribe", t) : t \in DOMAIN subscriptions}]_vars

\* C9: once the connection the channel uses is Open, a subscribe message has
\* been sent on it for every registered topic, whenever the topic was
\* registered (before the connection opened, or after).
C9_RegisteredTopicsSubscribed ==
  IsOpen(ws) => \A t \in DOMAIN subscriptions : lastSent[t] = "subscribe"

\* both topics were registered before the connection opened, and its opening
\* sent a subscribe message for each
C9_Witness ==
  /\ IsOpen(ws)
  /\ DOMAIN subscriptions = Topics
  /\ wire = {Message("subscribe", t) : t \in Topics}

BackoffOfClose(n) ==
  CASE n = 1 -> 1000 [] n = 2 -> 2000 [] n = 3 -> 4000 [] n = 4 -> 8000
    [] n = 5 -> 16000 [] OTHER -> 30000

C12_CloseAllLeavesNothing ==
  [][CloseAll =>
       /\ ws' = "null"
       /\ subscriptions' = <<>>
       /\ reconnectTimer'.state = "null"
       /\ PendingCount' = 0]_vars

\* the entries a Map holds
EntriesOf(m) == {m[i] : i \in 1 .. Len(m)}

\* C13: a set on an absent key while the store holds maxSize entries evicts
\* exactly one entry, the oldest-inserted one; every other entry is kept as
\* it was and the new key is stored.
C13_FullSetEvictsOldest ==
  [][\A k \in Keys, v \in Values, t \in TtlArgs :
       (~CacheHasKey(k) /\ Len(cache) = maxSize /\ Set(k, v, t)) =>
         /\ KeysOf(cache') = (KeysOf(cache) \ {cache[1].key}) \cup {k}
         /\ \A i \in 2 .. Len(cache) : cache[i] \in EntriesOf(cache')
         /\ ValueOf(cache', k) = v]_vars

\* what a read of key k is specified to do, r being what get returns: a miss
\* returns absent, an entry read before its expiry instant is returned and
\* the store kept, an entry read after it is removed (it alone) and absent
\* returned; at the expiry instant itself (the subject of C15) one of the two
GetOutcome(k, r) ==
  LET present == k \in KeysOf(cache)
      e == CHOOSE x \in EntriesOf(cache) : x.key = k
      served == r = e.value /\ cache' = cache
      expired == /\ r = Null
                 /\ EntriesOf(cache') = EntriesOf(cache) \ {e}
                 /\ Len(cache') = Len(cache) - 1
  IN
  IF ~present THEN r = Null /\ cache' = cache
  ELSE IF now < e.expiresAt THEN served
  ELSE IF now > e.expiresAt THEN expired
  ELSE served \/ expired

C15_ZeroTtlExpiresAtOnce ==
  [][\A k \in Keys, v \in Values :
       (Set(k, v, Some(0)) \/ (ttl = 0 /\ Set(k, v, None))) =>
         GetResult(k)' = Null]_vars

\* C16: set(key, value, ttl) stores the entry with expiresAt = now + ttl for
\* every ttl passed, 0 included; the default TTL of the cache is used only
\* when the argument is omitted.
C16_ExpiresAtIsNowPlusTtl ==
  [][\A k \in Keys, v \in Values, t \in TtlArgs :
       Set(k, v, t) =>
         \E e \in EntriesOf(cache') :
           /\ e.key = k
           /\ e.expiresAt = now + (IF t = None THEN ttl ELSE t[1])]_vars

\* the delay the Retry Engine is specified to wait after a failure with
\* error e at attempt index i, in ms: the retry-after duration of a
\* rate-limited error, else the capped exponential backoff
SpecifiedDelay(i, e) ==
  IF e.kind = "RateLimitError" /\ e.retryAfter # None
    THEN e.retryAfter[1] * 1000
    ELSE IF 1000 * (2 ^ i) <= 30000 THEN 1000 * (2 ^ i) ELSE 30000

\* C17: when the first k invocations (k <= maxRetries) fail with retryable
\* errors and invocation k + 1 succeeds, execute returns the success value,
\* the operation is invoked k + 1 times and never again, and execute has
\* slept k times, each time the delay computed and reported for that failure
\* (1000 ms then 2000 ms for two Network failures). The delay after a
\* rate-limited error with retry-after 0 is the subject of C18.
C17_SucceedsAfterRetries ==
  \A j \in 1 .. Len(calls) :
    (/\ calls[j].ok
     /\ j - 1 <= maxRetries
     /\ \A i \in 1 .. j - 1 : ~calls[i].ok /\ Retryable(calls[i].error[1]))
    => /\ Len(calls) = j
       /\ pc = "returned"
       /\ outcome = [kind |-> "returned", value |-> Some("data")]
       /\ Len(slept) = j - 1
       /\ Len(warns) = j - 1
       /\ \A i \in 1 .. j - 1 :
            /\ slept[i] = warns[i].delay
            /\ calls[i].error[1].retryAfter # Some(0)
                 => slept[i] = SpecifiedDelay(i - 1, calls[i].error[1])

\* two Network failures, then success on the third invocation
C17_Witness ==
  /\ pc = "returned"
  /\ Len(calls) = 3
  /\ calls[1].error[1].kind = "NetworkError"
  /\ calls[2].error[1].kind = "NetworkError"
  /\ slept = <<1000, 2000>>

\* C18: the delay slept after the failure at attempt index i is exactly r
\* seconds for a rate-limited error carrying retry-after r, for every
\* r >= 0, whatever i; for every other retried error it is
\* min(1000 * 2^i, 30000) ms.
C18_DelayAsSpecified ==
  \A n \in 1 .. Len(slept) : slept[n] = SpecifiedDelay(n - 1, calls[n].error[1])

\* the class the pipeline is specified to map a transport failure to, by the
\* first matching rule (ServiceError is the base class B402Error)
ClassOf(f) ==
  IF f.response = None THEN "NetworkError"
  ELSE LET st == f.response[1].status
       IN  CASE st \in {401, 403} -> "AuthenticationError"
             [] st = 429 -> "RateLimitError"
             [] st = 404 -> "PaymentNotFoundError"
             [] st = 400 -> "ValidationError"
             [] OTHER -> "B402Error"

\* the field of a response body, "" when the body or the field is missing
FromBody(f, field) ==
  IF f.response[1].data = None THEN "" ELSE f.response[1].data[1][field]

\* error e carries the message of the body of f, or some non-empty default
MessageFromBody(e, f) ==
  IF FromBody(f, "message") # "" THEN e.message = FromBody(f, "message")
  ELSE e.message # ""

\* C19: every failed transport outcome of the pipeline is mapped to the one
\* classified error of the first matching rule (no response, 401/403, 429,
\* 404, 400, other), with the message and code taken from the response body
\* where the rule says so, and what execute throws to the caller is that
\* classified error, never the raw failure.
C19_FailureClassified ==
  /\ \A i \in 1 .. Len(calls) :
       (mode = "http" /\ ~calls[i].ok) =>
         LET e == calls[i].error[1]
             f == e.original[1]
         IN  /\ e.original # None
             /\ f \in TransportFailures
             /\ e.kind = ClassOf(f)
             /\ e.kind \in {"PaymentNotFoundError", "ValidationError"}
                  => MessageFromBody(e, f)
             /\ e.kind = "B402Error" =>
                  /\ MessageFromBody(e, f)
                  /\ e.code = (IF FromBody(f, "code") # "" THEN FromBody(f, "code")
                               ELSE "UNKNOWN_ERROR")
  /\ (mode = "http" /\ pc = "threw" /\ calls # <<>>) =>
       outcome = [kind |-> "threw", value |-> calls[Len(calls)].error]

\* a 404 response with a body: the caller receives a NotFound error with the
\* body's message
C19_Witness ==
  /\ mode = "http"
  /\ pc = "threw"
  /\ outcome.value # None
  /\ outcome.value[1].kind = "PaymentNotFoundError"
  /\ outcome.value[1].message = "X"
  /\ outcome.value[1].original[1].response[1].status = 404

\* the number of seconds a retry-after header is specified to denote, 60 when
\* the header is absent or does not parse as a number
SecondsOf(h) ==
  CASE h = Some(<<"0">>) -> 0
    [] h = Some(<<"5">>) -> 5
    [] h = Some(<<"4", "0">>) -> 40
    [] OTHER -> 60

\* C20: a 429 response yields a RateLimit error whose retryAfter is the
\* retry-after header parsed as seconds, for every header that parses as a
\* non-negative integer, 0 included, and 60 when it is absent or unparsable.
C20_RetryAfterFromHeader ==
  \A i \in 1 .. Len(calls) :
    (mode = "http" /\ ~calls[i].ok /\ ResponseStatus(calls[i].error[1]) = 429) =>
      /\ calls[i].error[1].kind = "RateLimitError"
      /\ calls[i].error[1].retryAfter =
           Some(SecondsOf(calls[i].error[1].original[1].response[1].retryAfter))

\* the class a client-error status is specified to surface as
ClientErrorClass(st) ==
  CASE st = 400 -> "ValidationError"
    [] st \in {401, 403} -> "AuthenticationError"
    [] st = 404 -> "PaymentNotFoundError"

\* C21: a pipeline request answered with status 400, 401, 403 or 404 is not
\* retried, whatever the retry count: that transport call is the last one
\* (the only one when it is the first), no delay follows it, and execute
\* throws the classified error (Validation, Authentication, NotFound).
C21_ClientErrorNotRetried ==
  \A i \in 1 .. Len(calls) :
    (mode = "http" /\ ~calls[i].ok
       /\ ResponseStatus(calls[i].error[1]) \in {400, 401, 403, 404}) =>
      /\ Len(calls) = i
      /\ Len(slept) = i - 1
      /\ pc = "threw"
      /\ outcome = [kind |-> "threw", value |-> calls[i].error]
      /\ calls[i].error[1].kind = ClientErrorClass(ResponseStatus(calls[i].error[1]))

\* a 400 response under a retry count of 2: one transport call, Validation
C21_Witness ==
  /\ mode = "http"
  /\ maxRetries = 2
  /\ pc = "threw"
  /\ Len(calls) = 1
  /\ ResponseStatus(calls[1].error[1]) = 400
  /\ outcome.value # None
  /\ outcome.value[1].kind = "ValidationError"

\* the (topic, handler) pairs of the subscription table
Registered == {<<t, h>> \in Topics \X Handlers : t \in DOMAIN subscriptions /\ h \in subscriptions[t]}

\* the state of the channel proper: connection, table, counter, timers
channelState == <<ws, orphans, subscriptions, reconnectAttempts, reconnectTimer, strayTimers>>

\* C22: an inbound message {channel: T, data: P} invokes each handler
\* registered under T at delivery exactly once with P (however often it was
\* subscribed), invokes no other handler and nothing with another payload,
\* and leaves the channel state as it was; with no handler under T nothing
\* is invoked.
C22_MessageReachesTopicHandlers ==
  [][delivered'.kind = "message" =>
       /\ \A h \in Handlers, p \in Payloads :
            CopiesIn(<<h, p>>, delivered'.invoked) =
              (IF <<delivered'.channel, h>> \in Registered /\ p = delivered'.data
                 THEN 1 ELSE 0)
       /\ BagToSet(delivered'.invoked) \subseteq Handlers \X Payloads
       /\ channelState' = channelState]_vars

\* a message on t1 has reached both of its handlers, once each, and not the
\* handler of t2
C22_Witness ==
  /\ delivered.kind = "message"
  /\ delivered.channel = "t1"
  /\ delivered.data = "p2"
  /\ delivered.invoked = SetToBag({<<"h1", "p2">>, <<"h2", "p2">>})
  /\ Registered = {<<"t1", "h1">>, <<"t1", "h2">>, <<"t2", "h2">>}

\* C23: invoking the unsubscribe capability of subscribe(T, h) removes h,
\* and h alone, from the handlers of T; from then on no step but a new
\* subscribe(T, h) registers it again, whatever closes and reconnects
\* happen, and every message invokes exactly the handlers registered at its
\* delivery: h is not invoked for later messages on T, the others are.
C23_UnsubscribedHandlerNotInvoked ==
  [][/\ \A t \in Topics, h \in Handlers :
          /\ Unsubscribe(t, h) => Registered' = Registered \ {<<t, h>>}
          /\ (<<t, h>> \notin Registered /\ <<t, h>> \in Registered') => Subscribe(t, h)
     /\ delivered'.kind = "message" =>
          {x[1] : x \in BagToSet(delivered'.invoked)}
            = {h \in Handlers : <<delivered'.channel, h>> \in Registered}]_vars

\* h1 was subscribed to t1 and unsubscribed; after a reconnect a message on
\* t1 has been delivered to h2 alone
C23_Witness ==
  /\ delivered.kind = "message"
  /\ delivered.channel = "t1"
  /\ BagToSet(delivered.invoked) = {<<"h2", delivered.data>>}
  /\ <<"t1", "h1">> \in caps
  /\ Registered = {<<"t1", "h2">>}
  /\ ~shutdown
  /\ reconnectTimer.state = "spent"

\* C24: unsubscribing the last handler of a topic removes the topic and
\* sends one unsubscribe message for it exactly when the channel's connection
\* is Open; unsubscribing a handler while others remain under the topic
\* keeps the topic and sends nothing.
C24_LastUnsubscribeSendsControl ==
  [][\A t \in Topics, h \in Handlers :
       (Unsubscribe(t, h) /\ <<t, h>> \in Registered) =>
         IF subscriptions[t] = {h}
           THEN /\ t \notin DOMAIN subscriptions'
                /\ wire' = (IF ws = "OPEN" THEN {[type |-> "unsubscribe", channel |-> t]}
                            ELSE {})
           ELSE /\ t \in DOMAIN subscriptions'
                /\ subscriptions'[t] = subscriptions[t] \ {h}
                /\ wire' = {}]_vars

\* the last handler of t1 has been unsubscribed on an open connection
C24_Witness ==
  /\ ws = "OPEN"
  /\ wire = {[type |-> "unsubscribe", channel |-> "t1"]}
  /\ "t1" \notin DOMAIN subscriptions
  /\ lastSent["t1"] = "unsubscribe"

\* C25: when a handler of the topic throws during a dispatch, every handler
\* registered under the topic, the others included, is still invoked once
\* for that message, the failure is logged and not thrown to the transport,
\* and connection, table, counter and timers are as before.
C25_ThrowingHandlerIsolated ==
  [][(delivered'.kind = "message" /\ delivered'.failed # {}) =>
       /\ \A h \in Handlers :
            <<delivered'.channel, h>> \in Registered =>
              CopiesIn(<<h, delivered'.data>>, delivered'.invoked) = 1
       /\ delivered'.failed \subseteq {h \in Handlers : <<delivered'.channel, h>> \in Registered}
       /\ delivered'.errors = Cardinality(delivered'.failed)
       /\ ~delivered'.thrown
       /\ channelState' = channelState]_vars

\* h1 threw on a message for t1 and h2 was invoked all the same
C25_Witness ==
  /\ delivered.kind = "message"
  /\ delivered.channel = "t1"
  /\ delivered.failed = {"h1"}
  /\ delivered.invoked = SetToBag({<<"h1", delivered.data>>, <<"h2", delivered.data>>})
  /\ ~delivered.thrown

\* C26: an inbound message that does not parse is dropped with one
\* diagnostic: no handler is invoked, nothing is thrown, connection, table,
\* counter and timers are as before, and an open connection is still there
\* to deliver the next message.
C26_MalformedDropped ==
  [][delivered'.kind = "dropped" =>
       /\ delivered'.invoked = EmptyBag
       /\ delivered'.errors = 1
       /\ ~delivered'.thrown
       /\ channelState' = channelState
       /\ (ws' = "OPEN" \/ BagIn("OPEN", orphans'))]_vars

\* a malformed message has been dropped while both topics have handlers
C26_Witness ==
  /\ delivered.kind = "dropped"
  /\ delivered.invoked = EmptyBag
  /\ DOMAIN subscriptions = Topics
  /\ ws = "OPEN"

\* the cache key getStatus is specified to use for a payment
KeyOfStatus(id) == IF id = "p1" THEN "payment:status:p1" ELSE "payment:status:p2"

\* C27: getStatus(id) returns the cached status without a pipeline call when
\* the cache holds a live entry for id; on a miss it issues exactly one
\* pipeline call, and when that call resolves the status is stored under the
\* key of id with expiresAt = now + 5000 and returned; when it fails the
\* cache is left as it is and the call throws the error. (At the instant
\* now = expiresAt an entry counts as either, see C15.)
C27_GetStatusReadsThroughCache ==
  [][/\ \A id \in PaymentIds :
          GetStatus(id) =>
            LET es == {e \in EntriesOf(cache) : e.key = KeyOfStatus(id)}
                job == jobs'[Len(jobs')]
                hit == /\ \E e \in es : job.result = e.value
                       /\ job.pc = "returned" /\ job.fetches = 0
                       /\ cache' = cache
                miss == /\ job.pc = "fetching" /\ job.fetches = 1
                        /\ EntriesOf(cache') = EntriesOf(cache) \ es
            IN  /\ Len(jobs') = Len(jobs) + 1
                /\ job.op = "getStatus" /\ job.id = id
                /\ IF \E e \in es : now < e.expiresAt THEN hit
                   ELSE IF \E e \in es : now = e.expiresAt THEN hit \/ miss
                   ELSE miss
     /\ \A j \in 1 .. Len(jobs) :
          /\ \A st \in PaymentStatuses :
               StatusFetched(j, st) =>
                 /\ jobs'[j].pc = "returned" /\ jobs'[j].result = st
                 /\ jobs'[j].fetches = 1
                 /\ [key |-> KeyOfStatus(jobs[j].id), value |-> st,
                     expiresAt |-> now + 5000] \in EntriesOf(cache')
          /\ \A e \in PipelineErrors :
               (FetchFails(j, e) /\ jobs[j].op = "getStatus") =>
                 /\ cache' = cache
                 /\ jobs'[j].pc = "threw" /\ jobs'[j].error = Some(e)
                 /\ jobs'[j].fetches = 1]_vars

\* a getStatus that missed, fetched and cached a status, then a getStatus of
\* the same payment served from the cache with no pipeline call
C27_Witness ==
  /\ Len(jobs) = 2
  /\ jobs[1] = [op |-> "getStatus", id |-> "p1", pc |-> "returned", result |-> "s2",
                error |-> None, fetches |-> 1]
  /\ jobs[2] = [op |-> "getStatus", id |-> "p1", pc |-> "returned", result |-> "s2",
                error |-> None, fetches |-> 0]

\* C28: once a close event has arrived with the reconnect counter at 5 (a
\* sixth consecutive close), the channel has stopped: no step, a later
\* subscribe included, creates a connection.
C28_StoppedForGood ==
  [][closes >= 6 => LiveCount' <= LiveCount]_vars

\* an execute call is sequential: an invocation is in flight only when every
\* earlier invocation has failed and been followed by a completed sleep, a
\* sleep is under way only after the failure it follows, the loop variable
\* counts the call's own sleeps, and each delay is the one specified for the
\* call's own failure at its own attempt index
Sequential(t) ==
  /\ t.pc = "calling" =>
       /\ \A i \in 1 .. Len(t.calls) : ~t.calls[i].ok
       /\ Len(t.slept) = Len(t.calls)
       /\ t.attempt = Len(t.calls)
  /\ t.pc = "sleeping" =>
       /\ Len(t.slept) = Len(t.calls)
       /\ t.attempt = Len(t.calls) - 1
  /\ Len(t.slept) <= Len(t.calls)
  /\ \A i \in 1 .. Len(t.slept) :
       /\ ~t.calls[i].ok
       /\ t.slept[i] = SpecifiedDelay(i - 1, t.calls[i].error[1])
  /\ t.pc = "returned" => t.outcome = [kind |-> "returned", value |-> Some("data")]
  /\ (t.pc = "threw" /\ t.calls # <<>>) =>
       t.outcome = [kind |-> "threw", value |-> t.calls[Len(t.calls)].error]

\* C29: within one execute call at most one invocation is in flight, the
\* next starting only after the previous has failed and its delay has been
\* slept; and with several calls running on the same handler, a step of one
\* call changes nothing of another: each call's attempt count, delays and
\* outcome are those of its own failures.
C29_CallsDoNotInterfere ==
  [][/\ \A c \in Callers : Sequential(tasks'[c])
     /\ \A c, d \in Callers :
          (c # d /\ tasks'[c] # tasks[c]) => tasks'[d] = tasks[d]]_vars

\* A is about to make its third invocation, having slept 1000 and 2000 ms,
\* while B has failed once and is in its first sleep
C29_Witness ==
  /\ tasks["A"].pc = "calling"
  /\ tasks["A"].attempt = 2
  /\ tasks["A"].slept = <<1000, 2000>>
  /\ tasks["B"].pc = "sleeping"
  /\ tasks["B"].attempt = 0
  /\ tasks["B"].slept = <<1000>>

\* the keys of a Map in insertion order, restricted to the keys in ks
OrderWithin(m, ks) == SelectSeq([i \in 1 .. Len(m) |-> m[i].key], LAMBDA k : k \in ks)

\* C30: a set on a key that is present leaves the key present and in its
\* place in the eviction order, at capacity too: the keys present before and
\* after are in the same relative insertion order.
C30_UpdateKeepsOrder ==
  [][\A k \in Keys, v \in Values, t \in TtlArgs :
       (CacheHasKey(k) /\ Set(k, v, t)) =>
         /\ k \in KeysOf(cache')
         /\ OrderWithin(cache', KeysOf(cache)) = OrderWithin(cache, KeysOf(cache'))]_vars

\* the reconnects a step schedules: pending timers after it, less those before
ScheduledByStep == PendingCount' - PendingCount

\* C31: an error event of a connection records one diagnostic and nothing
\* else: connection slot, replaced connections, table, counter and timers
\* are as before, no reconnect is scheduled and nothing is sent or
\* delivered; the close event that follows an error schedules the one
\* reconnect a close schedules below the ceiling of five, and the counter
\* rises by that one.
C31_ErrorOnlyLogs ==
  [][/\ delivered'.kind = "error" =>
          /\ channelState' = channelState
          /\ ScheduledByStep = 0
          /\ delivered'.errors = 1
          /\ delivered'.invoked = EmptyBag
          /\ wire' = {}
          /\ <<caps, lastSent, closes, shutdown>>' = <<caps, lastSent, closes, shutdown>>
     /\ (delivered.kind = "error" /\ closes' = closes + 1 /\ reconnectAttempts < 5) =>
          /\ ScheduledByStep = 1
          /\ reconnectAttempts' = reconnectAttempts + 1]_vars

\* an error has been logged on the open connection of a channel with a
\* handler: no timer was ever set and the counter is 0
C31_Witness ==
  /\ delivered.kind = "error"
  /\ ws = "OPEN"
  /\ reconnectTimer.state = "null"
  /\ strayTimers = EmptyBag
  /\ reconnectAttempts = 0
  /\ Registered # {}

\* C32: a step that changes the topic-to-handlers table is a subscribe, an
\* unsubscribe or closeAll; open, close, error, timer and message events
\* leave it as it was, so the table is the same after any number of
\* disconnects and reconnects.
C32_TableChangedByCallerOnly ==
  [][/\ subscriptions' # subscriptions =>
          \/ \E t \in Topics, h \in Handlers : Subscribe(t, h) \/ Unsubscribe(t, h)
          \/ CloseAll
     /\ (\/ WsOpens \/ OrphanOpens \/ WsCloses
         \/ \E st \in LiveStates : OrphanCloses(st)
         \/ SlotTimerFires
         \/ \E d \in BagToSet(strayTimers) : StrayTimerFires(d)
         \/ delivered'.kind \in {"message", "dropped", "error"})
          => Registered' = Registered]_vars

\* both topics still have their handlers after the connection and its first
\* reconnect have closed and while the next reconnect is pending
C32_Witness ==
  /\ Registered = {<<"t1", "h1">>, <<"t2", "h2">>}
  /\ ws = "CLOSED"
  /\ closes = 2
  /\ reconnectAttempts = 2
  /\ reconnectTimer.state = "pending"
  /\ ~shutdown

\* the retries a finished call has performed: its invocations but the first
RetriesPerformed == IF Len(calls) = 0 THEN 0 ELSE Len(calls) - 1

\* C33: execute logs one diagnostic per retry: at every moment the i-th
\* diagnostic belongs to the i-th invocation, which failed with a retryable
\* error, and carries the attempt number i, that error's message and the
\* delay slept before invocation i + 1; a finished call has logged as many
\* diagnostics as it has retried (none after a first-attempt success, a
\* non-retryable failure or the final failed attempt), and its outcome is
\* that of its last invocation.
C33_OneDiagnosticPerRetry ==
  /\ Len(warns) = Len(slept)
  /\ \A i \in 1 .. Len(warns) :
       /\ i <= Len(calls)
       /\ ~calls[i].ok
       /\ Retryable(calls[i].error[1])
       /\ warns[i].attempt = i
       /\ warns[i].delay = slept[i]
       /\ warns[i].error = calls[i].error[1].message
       /\ warns[i].maxRetries = maxRetries
  /\ pc \in {"returned", "threw"} =>
       /\ Len(warns) = RetriesPerformed
       /\ Len(calls) > 0 =>
            IF calls[Len(calls)].ok
              THEN outcome.kind = "returned"
              ELSE outcome = [kind |-> "threw", value |-> calls[Len(calls)].error]

\* a call that succeeded on its third invocation has logged two diagnostics
C33_Witness ==
  /\ pc = "returned"
  /\ Len(calls) = 3
  /\ Len(warns) = 2
  /\ warns[1].attempt = 1
  /\ warns[2].attempt = 2
  /\ warns[2].delay = 2000

\* an option as the caller supplied it, or the default when it was omitted
SuppliedOr(x, d) == IF x = None THEN d ELSE x[1]

\* C34: the retry budget of the request pipeline is the retries option the
\* caller supplied, 0 included, and 3 only when the option was omitted; the
\* cache's ttl and capacity are the cacheTTL and cacheMaxSize supplied, the
\* defaults 5000 and 100 only when omitted.
C34_OptionsReachServices ==
  /\ maxRetries = SuppliedOr(options.retries, 3)
  /\ ttl = SuppliedOr(options.cacheTTL, 5000)
  /\ maxSize = SuppliedOr(options.cacheMaxSize, 100)

\* the getStatus calls of payment id that fetched a status and returned it:
\* the calls whose status the cache can hold
FetchersOf(id) ==
  {w \in 1 .. Len(jobs) :
     /\ jobs[w].op = "getStatus" /\ jobs[w].id = id
     /\ jobs[w].pc = "returned" /\ jobs[w].fetches = 1}

\* the cancel calls of payment id that have resolved
CancelledBy(id) ==
  {c \in 1 .. Len(jobs) : jobs[c].op = "cancel" /\ jobs[c].id = id /\ jobs[c].pc = "returned"}

\* C35: a getStatus(id) started after a cancel(id) has resolved does not
\* return a status fetched by a request issued before that cancel
\* completed: when it is served from the cache, some getStatus(id) that
\* started after the cancel did has fetched a status. (Calls are numbered in
\* the order they start, so a request of a call numbered below the cancel
\* was issued before the cancel completed.)
C35_NoStaleStatusAfterCancel ==
  [][\A id \in PaymentIds :
       (GetStatus(id) /\ jobs'[Len(jobs')].fetches = 0) =>
         \A c \in CancelledBy(id) : \E w \in FetchersOf(id) : w > c]_vars

\* C36: every pending reconnect timer is the one the timer slot refers to, so
\* at most one is pending and clearing the slot's timer leaves none.
C36_OnePendingTimerInSlot ==
  /\ strayTimers = EmptyBag
  /\ PendingCount <= 1

\* C37: invoking an unsubscribe capability that has been invoked before
\* changes nothing: the subscription table is as it was and no control
\* message is sent, also when its handler has been subscribed to its topic
\* again in between.
C37_SecondUnsubscribeNoEffect ==
  [][\A t \in Topics, h \in Handlers :
       (UnsubscribeCounted(t, h) /\ <<t, h>> \in used) =>
         /\ subscriptions' = subscriptions
         /\ wire' = {}]_vars

\* C38: whatever retry count the client was constructed with, a finished
\* execute has invoked the operation at least once, and one that failed
\* threw an error that one of its invocations failed with.
C38_InvokedAtLeastOnce ==
  pc \in {"returned", "threw"} =>
    /\ Len(calls) >= 1
    /\ pc = "threw" =>
         /\ outcome.kind = "threw"
         /\ \E i \in 1 .. Len(calls) : ~calls[i].ok /\ calls[i].error = outcome.value

\* a connection reaches Open in this step: the one the slot refers to, or a
\* replaced one
ReachesOpen ==
  \/ ws = "CONNECTING" /\ ws' = "OPEN"
  \/ /\ CopiesIn("OPEN", orphans') = CopiesIn("OPEN", orphans) + 1
     /\ CopiesIn("CONNECTING", orphans') = CopiesIn("CONNECTING", orphans) - 1

\* C39: reconnectAttempts stays within 0..5; a step that raises it is a
\* close event that schedules a reconnect and raises it by exactly 1; a
\* step that lowers it is a connection reaching Open and sets it to 0;
\* every step that is neither a close event nor a connection reaching Open
\* (subscribe, unsubscribe, closeAll, a timer firing, a message, an error)
\* leaves it as it is.
C39_CounterRange ==
  [][/\ reconnectAttempts \in 0 .. 5
     /\ reconnectAttempts' \in 0 .. 5
     /\ reconnectAttempts' > reconnectAttempts =>
          /\ reconnectAttempts' = reconnectAttempts + 1
          /\ closes' = closes + 1
          /\ ScheduledByStep = 1
     /\ reconnectAttempts' < reconnectAttempts =>
          /\ reconnectAttempts' = 0
          /\ ReachesOpen
     /\ (~ReachesOpen /\ closes' # closes + 1) =>
          reconnectAttempts' = reconnectAttempts]_vars

\* a connection has opened after a reconnect and the counter is back at 0
C39_Witness ==
  /\ reconnectAttempts = 0
  /\ ws = "OPEN"
  /\ closes = 0
  /\ reconnectTimer.state = "spent"
  /\ ~shutdown

\* C40: with maxRetries >= 0, an execute call whose operation always
\* settles and whose timers always fire ends, returning or throwing; at no
\* time has it invoked the operation more than maxRetries + 1 times or slept
\* more than maxRetries delays.
C40_ExecuteTerminates ==
  /\ [](maxRetries >= 0 =>
          /\ Len(calls) <= maxRetries + 1
          /\ Len(slept) <= maxRetries)
  /\ (maxRetries >= 0 /\ pc \in {"calling", "sleeping"}) ~> (pc \in {"returned", "threw"})

\* a call with maxRetries = 2 has ended after three invocations and two delays
C40_Witness ==
  /\ maxRetries = 2
  /\ pc = "threw"
  /\ Len(calls) = 3
  /\ Len(slept) = 2

=============================================================================
